---- MODULE Spec2Model ----
(***************************************************************************)
(* DynamoDBApp (src/dynamo_app.py): a client of one DynamoDB table whose   *)
(* primary key is (userId, timestamp), both strings.  Every method but     *)
(* load_seed_data issues at most one request to the table; the table       *)
(* executes each request atomically.  The model keeps the table and, for   *)
(* the method call that is outstanding, its arguments, the requests it     *)
(* issued, what it returned or raised, and the table as it was before the  *)
(* call.  The wall clock a call reads is an input of that call.            *)
(*                                                                         *)
(* Strings that are compared or produced by conversion (sort keys, query   *)
(* bounds) are sequences of decimal digits, compared as strings are:       *)
(* lexicographically.  Python's None is the record None; a supplied value   *)
(* v of an optional argument is Some(v).                                   *)
(*                                                                         *)
(* query_by_email reads the table through its index, takes no part in the  *)
(* properties below and is not modelled.                                   *)
(***************************************************************************)
EXTENDS Integers, Sequences, FiniteSets, TLC

VARIABLES
    table,      \* the DynamoDB table: primary key -> item
    op,         \* the last method call: its name and arguments
    calls,      \* the requests that call sent to the table, in order
    response,   \* what that call returned or raised
    prev,       \* the table before that call
    pc,         \* concurrent update_login_count callers: position of each
    ret         \* concurrent update_login_count callers: value returned

vars == <<table, op, calls, response, prev, pc, ret>>

----------------------------------------------------------------------------
(* Bounds of the model *)

\* no more than MaxItems items are ever stored under the keys of Keys
MaxItems == 2
\* loginCount is not incremented beyond MaxCount
MaxCount == 1
\* batch_get_profiles is given at most MaxKeys hand-picked keys
MaxKeys == 2
\* number of concurrent update_login_count callers
NumCallers == 3
\* a seed file of items under the keys of Keys holds at most MaxSeed items
MaxSeed == 2

\* BatchGetItem accepts at most 100 keys in one request
BatchLimit == 100

Users == {"u1", "u2"}
Times == {9, 10}
Emails == {"a@x.com"}
Themes == {"dark", "blue"}

----------------------------------------------------------------------------
(* Python values *)

None == [kind |-> "None"]
Some(v) == [kind |-> "Some", val |-> v]
Return(v) == [kind |-> "return", value |-> v]
Raise(code) == [kind |-> "ClientError", code |-> code]

\* no method call is outstanding
Idle == [name |-> "idle"]

\* str(n) for a non-negative int n: its decimal digits
RECURSIVE IntToStr(_)
IntToStr(n) == IF n < 10 THEN <<n>> ELSE Append(IntToStr(n \div 10), n % 10)

\* s <= t for strings: lexicographic, a proper prefix first
RECURSIVE StrLeq(_, _)
StrLeq(s, t) ==
    IF s = <<>> THEN TRUE
    ELSE IF t = <<>> THEN FALSE
    ELSE IF Head(s) # Head(t) THEN Head(s) < Head(t)
    ELSE StrLeq(Tail(s), Tail(t))

\* {**base, **kwargs}: the later mapping wins on a shared key
Merge(base, kwargs) ==
    [a \in DOMAIN base \cup DOMAIN kwargs |->
        IF a \in DOMAIN kwargs THEN kwargs[a] ELSE base[a]]

EmptyDict == [a \in {} |-> None]

----------------------------------------------------------------------------
(* The table *)

SortKeys == {IntToStr(t) : t \in Times}
Keys == [userId : Users, timestamp : SortKeys]

KeyOf(item) == [userId |-> item.userId, timestamp |-> item.timestamp]

\* the attribute names of the item stored under key; none when no item is
AttrNames(tbl, key) == IF key \in DOMAIN tbl THEN DOMAIN tbl[key] ELSE {}

Store(tbl, key, item) ==
    [k \in DOMAIN tbl \cup {key} |-> IF k = key THEN item ELSE tbl[k]]

Remove(tbl, key) == [k \in DOMAIN tbl \ {key} |-> tbl[k]]

EmptyTable == [k \in {} |-> EmptyDict]

----------------------------------------------------------------------------
(* load_seed_data *)

\* the batch writer sends its buffer as one BatchWriteItem request when it
\* holds this many items, and what is left when the with-block ends
FlushAmount == 25

\* the table after put requests without a condition, in order: each item is
\* stored under its key, replacing what was stored there
RECURSIVE PutAll(_, _)
PutAll(tbl, items) ==
    IF items = <<>> THEN tbl
    ELSE PutAll(Store(tbl, KeyOf(Head(items)), Head(items)), Tail(items))

\* the call is still in its with-block: items are left to hand to the writer
Running == [kind |-> "running"]

\* with table.batch_writer() as batch: batch.put_item(Item=item) for each
\* item, from the item after the first `handed` ones up to and including
\* the writer's next BatchWriteItem request: the put_item that fills the
\* buffer to FlushAmount sends it, and the end of the with-block sends what is
\* left.  The table rejects a request that names a key twice and stores
\* nothing of it; the error ends the loop, and the buffer is then empty.
\* Yields the put_item calls made, the table, and how the method goes on.
NextFlush(tbl, items, handed) ==
    LET left == Len(items) - handed
        n == IF left < FlushAmount THEN left ELSE FlushAmount
        batch == SubSeq(items, handed + 1, handed + n)
    IN  [puts |-> [i \in 1..n |-> [api |-> "put_item", Item |-> batch[i]]],
         table |-> IF Cardinality({KeyOf(batch[i]) : i \in 1..n}) # n
                   THEN tbl ELSE PutAll(tbl, batch),
         out |-> IF Cardinality({KeyOf(batch[i]) : i \in 1..n}) # n
                 THEN Raise("ValidationException")
                 ELSE IF handed + n = Len(items) THEN Return(Len(items))
                 ELSE Running]

\* items found in seed files
SeedItems ==
    {[userId |-> k.userId, timestamp |-> k.timestamp, email |-> "seed@x.com"] :
        k \in Keys}

\* the i-th item of a seed file too long for one request; its partition
\* holds seed items only
SeedFiller(i) ==
    [userId |-> "seed", timestamp |-> IntToStr(i), email |-> "seed@x.com"]

\* seed files that take two requests: FlushAmount + 1 items with distinct
\* keys, and FlushAmount + 1 items whose key 1 comes twice in the first
\* request
LongSeedFiles ==
    {[i \in 1..(FlushAmount + 1) |-> SeedFiller(i)],
     [i \in 1..(FlushAmount + 1) |->
         SeedFiller(IF i = FlushAmount THEN 1 ELSE i)]}

\* seed files that take one full request, and two requests of which the
\* second, the last two items, has one key twice
MoreSeedFiles ==
    {[i \in 1..FlushAmount |-> SeedFiller(i)],
     [i \in 1..(FlushAmount + 2) |->
         SeedFiller(IF i = FlushAmount + 2 THEN FlushAmount + 1 ELSE i)]}

\* what open(filename) finds: no file, or a file with a JSON list of items
SeedFiles ==
    {None}
    \cup {Some(f) : f \in UNION {[1..n -> SeedItems] : n \in 0..MaxSeed}}
    \cup {Some(f) : f \in LongSeedFiles}

\* the call up to its first request to the table
LoadSeedData(file) ==
    LET res == NextFlush(table, file.val, 0)
    IN  /\ op = Idle
        /\ op' = [name |-> "load_seed_data", file |-> file]
        /\ prev' = table
        /\ UNCHANGED <<pc, ret>>
        /\ IF file = None
           THEN /\ response' = [kind |-> "FileNotFoundError"]
                /\ calls' = <<>>
                /\ table' = table
           ELSE /\ Cardinality(DOMAIN res.table \cap Keys) <= MaxItems
                /\ response' = res.out
                /\ calls' = res.puts
                /\ table' = res.table

\* the call goes on to its next request to the table
LoadSeedDataFlush ==
    /\ op # Idle
    /\ response = Running
    /\ LET res == NextFlush(table, op.file.val, Len(calls))
       IN  /\ response' = res.out
           /\ calls' = calls \o res.puts
           /\ table' = res.table
    /\ UNCHANGED <<op, prev, pc, ret>>

----------------------------------------------------------------------------
(* put_user_profile *)

\* ConditionExpression of the put, evaluated on the attribute names of the
\* item already stored under the new item's key:
\* attribute_not_exists(userId) AND attribute_not_exists(#ts), #ts = timestamp
PutConditionNone(attrs) == TRUE
PutCondition(attrs) == "userId" \notin attrs /\ "timestamp" \notin attrs

\* the item dict literal: the five named entries, then **kwargs
NewItem(user_id, timestamp, email, first_name, last_name, kwargs) ==
    Merge([userId |-> user_id, timestamp |-> timestamp, email |-> email,
           firstName |-> first_name, lastName |-> last_name], kwargs)

\* table.put_item(Item=..., ConditionExpression=...): the table and the outcome
PutItem(tbl, item) ==
    IF PutCondition(AttrNames(tbl, KeyOf(item)))
    THEN [table |-> Store(tbl, KeyOf(item), item), out |-> Return(EmptyDict)]
    ELSE [table |-> tbl, out |-> Raise("ConditionalCheckFailedException")]

\* extra attributes a caller passes as keyword arguments
KwargsChoices ==
    {EmptyDict,
     [loginCount |-> 0, preferences |-> [theme |-> "dark", notifications |-> TRUE]]}
    \cup {[userId |-> u] : u \in Users}
    \cup {[timestamp |-> s] : s \in SortKeys}

PutUserProfile(user_id, email, first_name, last_name, kwargs) ==
    \E time \in Times :
    LET timestamp == IntToStr(time)
        item == NewItem(user_id, timestamp, email, first_name, last_name, kwargs)
        res == PutItem(table, item)
    IN  /\ op = Idle
        /\ Cardinality(DOMAIN res.table \cap Keys) <= MaxItems
        /\ table' = res.table
        /\ response' = res.out
        /\ calls' = <<[api |-> "put_item", Item |-> item]>>
        /\ op' = [name |-> "put_user_profile", user_id |-> user_id,
                  timestamp |-> timestamp, kwargs |-> kwargs]
        /\ prev' = table
        /\ UNCHANGED <<pc, ret>>

----------------------------------------------------------------------------
(* get_user_profile *)

\* ProjectionExpression='userId, email, firstName, lastName, loginCount'
Projection == {"userId", "email", "firstName", "lastName", "loginCount"}

\* table.get_item(Key=..., ProjectionExpression=...): the response dict, which
\* has an 'Item' entry only when an item is stored under the key
GetItem(tbl, key) ==
    IF key \in DOMAIN tbl
    THEN [Item |-> [a \in DOMAIN tbl[key] \cap Projection |-> tbl[key][a]]]
    ELSE EmptyDict

\* what get_user_profile returns for the table tbl
GetUserProfileResult(tbl, user_id, timestamp) ==
    LET resp == GetItem(tbl, [userId |-> user_id, timestamp |-> timestamp])
    IN  IF "Item" \in DOMAIN resp THEN Return(resp.Item) ELSE Return(None)

GetUserProfile(user_id, timestamp) ==
    /\ op = Idle
    /\ response' = GetUserProfileResult(table, user_id, timestamp)
    /\ calls' = <<[api |-> "get_item",
                   Key |-> [userId |-> user_id, timestamp |-> timestamp]]>>
    /\ op' = [name |-> "get_user_profile", user_id |-> user_id,
              timestamp |-> timestamp]
    /\ prev' = table
    /\ UNCHANGED <<table, pc, ret>>

----------------------------------------------------------------------------
(* delete_user_profile *)

\* ConditionExpression of the delete: attribute_exists(userId)
DeleteConditionNone(attrs) == TRUE
DeleteCondition(attrs) == "userId" \in attrs

\* table.delete_item(Key=..., ConditionExpression=..., ReturnValues='ALL_OLD'):
\* the response dict has 'Attributes' only when an item was deleted
DeleteItem(tbl, key) ==
    IF DeleteCondition(AttrNames(tbl, key))
    THEN [table |-> Remove(tbl, key),
          out |-> Return(IF key \in DOMAIN tbl
                         THEN [Attributes |-> tbl[key]] ELSE EmptyDict)]
    ELSE [table |-> tbl, out |-> Raise("ConditionalCheckFailedException")]

DeleteUserProfile(user_id, timestamp) ==
    LET key == [userId |-> user_id, timestamp |-> timestamp]
        res == DeleteItem(table, key)
    IN  /\ op = Idle
        /\ table' = res.table
        /\ response' =
              IF res.out.kind = "ClientError" THEN res.out
              ELSE IF "Attributes" \in DOMAIN res.out.value
                   THEN Return(res.out.value.Attributes)
                   ELSE Return(None)
        /\ calls' = <<[api |-> "delete_item", Key |-> key]>>
        /\ op' = [name |-> "delete_user_profile", user_id |-> user_id,
                  timestamp |-> timestamp]
        /\ prev' = table
        /\ UNCHANGED <<pc, ret>>

----------------------------------------------------------------------------
(* the call returns to its caller *)

\* the caller has taken what the method returned or raised
Returned ==
    /\ op # Idle
    /\ response # Running
    /\ op' = Idle
    /\ calls' = <<>>
    /\ response' = Return(None)
    /\ prev' = table
    /\ UNCHANGED <<table, pc, ret>>

----------------------------------------------------------------------------
(* query_user_activity *)

\* truth value of an optional string argument: None and '' are false
Truthy(v) == v # None /\ v.val # <<>>

\* the key condition the method builds: Key('userId').eq(user_id), and on the
\* sort key between / gte / lte / nothing, by the if-elif chain
KeyCondition(user_id, start_time, end_time) ==
    [userId |-> user_id,
     timestamp |->
        IF Truthy(start_time) /\ Truthy(end_time)
        THEN [cmp |-> "between", lo |-> start_time.val, hi |-> end_time.val]
        ELSE IF Truthy(start_time) THEN [cmp |-> "gte", lo |-> start_time.val]
        ELSE IF Truthy(end_time) THEN [cmp |-> "lte", hi |-> end_time.val]
        ELSE [cmp |-> "any"]]

\* does the sort key s satisfy the sort-key part c of a key condition
SortKeyMatches(c, s) ==
    CASE c.cmp = "between" -> StrLeq(c.lo, s) /\ StrLeq(s, c.hi)
      [] c.cmp = "gte" -> StrLeq(c.lo, s)
      [] c.cmp = "lte" -> StrLeq(s, c.hi)
      [] c.cmp = "any" -> TRUE

\* the items of a set, each with a different sort key, by ascending sort key
RECURSIVE Ascending(_)
Ascending(items) ==
    IF items = {} THEN <<>>
    ELSE LET first == CHOOSE i \in items :
                         \A j \in items : StrLeq(i.timestamp, j.timestamp)
         IN  <<first>> \o Ascending(items \ {first})

\* table.query(KeyConditionExpression=cond, ScanIndexForward=True).  The table
\* rejects a BETWEEN whose upper bound is below its lower bound.
Query(tbl, cond) ==
    IF cond.timestamp.cmp = "between"
       /\ ~StrLeq(cond.timestamp.lo, cond.timestamp.hi)
    THEN Raise("ValidationException")
    ELSE Return([Items |-> Ascending(
             {tbl[k] : k \in {k \in DOMAIN tbl :
                 /\ k.userId = cond.userId
                 /\ SortKeyMatches(cond.timestamp, k.timestamp)}})])

\* values a caller passes as start_time / end_time
TimeBounds == {None} \cup {Some(s) : s \in {<<>>} \cup SortKeys}

QueryUserActivity(user_id, start_time, end_time) ==
    LET cond == KeyCondition(user_id, start_time, end_time)
        out == Query(table, cond)
    IN  /\ op = Idle
        /\ response' = IF out.kind = "ClientError" THEN out
                       ELSE Return(out.value.Items)
        /\ calls' = <<[api |-> "query", KeyConditionExpression |-> cond]>>
        /\ op' = [name |-> "query_user_activity", user_id |-> user_id,
                  start_time |-> start_time, end_time |-> end_time]
        /\ prev' = table
        /\ UNCHANGED <<table, pc, ret>>

----------------------------------------------------------------------------
(* update_login_count *)

\* ADD on a number attribute: the sum
AddNumberSet(old, inc) == inc
AddNumber(old, inc) == old + inc

\* table.update_item(Key=..., UpdateExpression='ADD loginCount :inc',
\* ReturnValues='UPDATED_NEW').  ADD takes an absent attribute as 0; with no
\* item under the key the update works on an item holding the key alone.
UpdateItemAdd(tbl, key, inc) ==
    LET old == IF key \in DOMAIN tbl THEN tbl[key] ELSE key
        count == AddNumber(IF "loginCount" \in DOMAIN old THEN old.loginCount ELSE 0,
                           inc)
    IN  [table |-> Store(tbl, key, Merge(old, [loginCount |-> count])),
         out |-> Return([Attributes |-> [loginCount |-> count]])]

Increments == {1}

UpdateLoginCount(user_id, timestamp, increment) ==
    LET key == [userId |-> user_id, timestamp |-> timestamp]
        res == UpdateItemAdd(table, key, increment)
    IN  /\ op = Idle
        /\ Cardinality(DOMAIN res.table \cap Keys) <= MaxItems
        /\ res.table[key].loginCount <= MaxCount
        /\ table' = res.table
        /\ response' = res.out
        /\ calls' = <<[api |-> "update_item", Key |-> key, add |-> increment]>>
        /\ op' = [name |-> "update_login_count", user_id |-> user_id,
                  timestamp |-> timestamp, increment |-> increment]
        /\ prev' = table
        /\ UNCHANGED <<pc, ret>>

----------------------------------------------------------------------------
(* update_preferences *)

\* the test "x is not None" on an optional argument
IsSupplied(v) == v # None

\* update_parts: one entry "#prefs.<name alias> = <value alias>" per supplied
\* argument, theme first
UpdatePartsTruthy(theme, notifications) ==
    (IF IsSupplied(theme)
     THEN <<[path |-> <<"#prefs", "#theme">>, value |-> ":theme"]>> ELSE <<>>)
    \o (IF notifications = Some(TRUE)
        THEN <<[path |-> <<"#prefs", "#notif">>, value |-> ":notif"]>> ELSE <<>>)
UpdateParts(theme, notifications) ==
    (IF IsSupplied(theme)
     THEN <<[path |-> <<"#prefs", "#theme">>, value |-> ":theme"]>> ELSE <<>>)
    \o (IF IsSupplied(notifications)
        THEN <<[path |-> <<"#prefs", "#notif">>, value |-> ":notif"]>> ELSE <<>>)

\* attr_values: value alias -> value
AttrValues(theme, notifications) ==
    Merge(IF IsSupplied(theme) THEN (":theme" :> theme.val) ELSE EmptyDict,
          IF IsSupplied(notifications) THEN (":notif" :> notifications.val)
          ELSE EmptyDict)

\* attr_names: name alias -> attribute name
AttrNameAliases(theme, notifications) ==
    Merge(IF IsSupplied(theme)
          THEN ("#prefs" :> "preferences" @@ "#theme" :> "theme") ELSE EmptyDict,
          IF IsSupplied(notifications)
          THEN ("#prefs" :> "preferences" @@ "#notif" :> "notifications")
          ELSE EmptyDict)

\* SET map.leaf = v: the map with that one entry set, the others as they were
SetNestedWhole(map, leaf, v) == leaf :> v
SetNested(map, leaf, v) == Merge(map, leaf :> v)

\* the item after the SET entries of an update expression
RECURSIVE ApplyParts(_, _, _, _)
ApplyParts(item, parts, names, values) ==
    IF parts = <<>> THEN item
    ELSE LET top == names[Head(parts).path[1]]
             leaf == names[Head(parts).path[2]]
         IN  ApplyParts(
                 [item EXCEPT ![top] = SetNested(@, leaf, values[Head(parts).value])],
                 Tail(parts), names, values)

\* table.update_item(Key=..., UpdateExpression='SET ' + parts, names, values,
\* ReturnValues='ALL_NEW').  A path a.b is valid only in an item that has the
\* map a; otherwise the table rejects the update and stores nothing.
UpdateItemSet(tbl, key, parts, names, values) ==
    IF \A i \in 1..Len(parts) : names[parts[i].path[1]] \in AttrNames(tbl, key)
    THEN LET item == ApplyParts(tbl[key], parts, names, values)
         IN  [table |-> Store(tbl, key, item),
              out |-> Return([Attributes |-> item])]
    ELSE [table |-> tbl, out |-> Raise("ValidationException")]

UpdatePreferences(user_id, timestamp, theme, notifications) ==
    LET key == [userId |-> user_id, timestamp |-> timestamp]
        parts == UpdateParts(theme, notifications)
        names == AttrNameAliases(theme, notifications)
        values == AttrValues(theme, notifications)
        res == UpdateItemSet(table, key, parts, names, values)
    IN  /\ op = Idle
        /\ op' = [name |-> "update_preferences", user_id |-> user_id,
                  timestamp |-> timestamp, theme |-> theme,
                  notifications |-> notifications]
        /\ prev' = table
        /\ UNCHANGED <<pc, ret>>
        /\ IF parts = <<>>
           THEN /\ response' = Return(None)
                /\ calls' = <<>>
                /\ table' = table
           ELSE /\ response' = IF res.out.kind = "ClientError" THEN res.out
                               ELSE Return(res.out.value.Attributes)
                /\ calls' = <<[api |-> "update_item", Key |-> key, set |-> parts,
                               names |-> names, values |-> values]>>
                /\ table' = res.table

----------------------------------------------------------------------------
(* batch_get_profiles *)

Range(seq) == {seq[i] : i \in 1..Len(seq)}

\* every way to list the elements of a finite set once each
Orderings(S) ==
    {s \in [1..Cardinality(S) -> S] : \A i, j \in 1..Cardinality(S) :
                                          i # j => s[i] # s[j]}

\* the requested keys with a stored item that one answer of the table may
\* cover: all of them, or fewer, the table handing the other keys back under
\* 'UnprocessedKeys'; it answers for at least one requested key
Answered(tbl, keys) ==
    {P \in SUBSET (Range(keys) \cap DOMAIN tbl) :
        P # {} \/ Range(keys) \ DOMAIN tbl # {}}

\* response['Responses'].get(TABLE_NAME, []): the stored items of the keys the
\* table answered for
FoundItems(tbl, answered) == {tbl[k] : k \in answered}

\* does the table accept a BatchGetItem request for these keys: at most
\* BatchLimit keys, no key twice
BatchAccepted(keys) ==
    /\ Len(keys) <= BatchLimit
    /\ Cardinality(Range(keys)) = Len(keys)

\* n keys under which nothing is ever stored
FillerKeys(n) ==
    [i \in 1..n |-> [userId |-> "u1", timestamp |-> IntToStr(1000 + i)]]

\* key lists a caller passes: short hand-picked ones, and long ones at and
\* just above the limit of one request
KeyLists ==
    UNION {[1..n -> Keys] : n \in 1..MaxKeys}
    \cup {<<k>> \o FillerKeys(n) : k \in Keys, n \in {BatchLimit - 1, BatchLimit}}

\* dynamodb.batch_get_item(RequestItems={TABLE_NAME: {'Keys': user_items}}),
\* then response['Responses'].get(TABLE_NAME, []), whatever the response has
\* under 'UnprocessedKeys'; the table lists the items in an order of its
\* choosing
BatchGetProfiles(user_items) ==
    /\ op = Idle
    /\ \E answered \in Answered(table, user_items) :
          \E items \in Orderings(FoundItems(table, answered)) :
             response' = IF BatchAccepted(user_items) THEN Return(items)
                         ELSE Raise("ValidationException")
    /\ calls' = <<[api |-> "batch_get_item", Keys |-> user_items]>>
    /\ op' = [name |-> "batch_get_profiles", user_items |-> user_items]
    /\ prev' = table
    /\ UNCHANGED <<table, pc, ret>>

----------------------------------------------------------------------------
(* The client used by one caller at a time *)

Callers == 1..NumCallers

Init ==
    /\ table = EmptyTable
    /\ op = Idle
    /\ calls = <<>>
    /\ response = Return(None)
    /\ prev = EmptyTable
    /\ pc = [c \in Callers |-> "idle"]
    /\ ret = [c \in Callers |-> None]

Next ==
    \/ Returned
    \/ \E f \in SeedFiles : LoadSeedData(f)
    \/ LoadSeedDataFlush
    \/ \E u \in Users, e \in Emails, kw \in KwargsChoices :
          PutUserProfile(u, e, "Alice", "Johnson", kw)
    \/ \E k \in Keys : GetUserProfile(k.userId, k.timestamp)
    \/ \E u \in Users, s \in TimeBounds, e \in TimeBounds :
          QueryUserActivity(u, s, e)
    \/ \E k \in Keys, inc \in Increments :
          UpdateLoginCount(k.userId, k.timestamp, inc)
    \/ \E k \in Keys, th \in {None} \cup {Some(t) : t \in Themes},
          nt \in {None, Some(TRUE), Some(FALSE)} :
          UpdatePreferences(k.userId, k.timestamp, th, nt)
    \/ \E k \in Keys : DeleteUserProfile(k.userId, k.timestamp)
    \/ \E ks \in KeyLists : BatchGetProfiles(ks)

Spec == Init /\ [][Next]_vars

----------------------------------------------------------------------------
(* load_seed_data of a long file while a second client of the table        *)
(* deletes profiles: its requests reach the table before, between and      *)
(* after the requests of the load.                                         *)

\* the keys the second client deletes: the first of the file, the one that
\* fills the first request and the one that is left for the next request
OtherKeys == {KeyOf(SeedFiller(i)) : i \in {1, FlushAmount, FlushAmount + 1}}

\* delete_user_profile called on the second client
OtherDeleteUserProfile(key) ==
    /\ table' = DeleteItem(table, key).table
    /\ UNCHANGED <<op, calls, response, prev, pc, ret>>

NextSeed ==
    \/ Returned
    \/ \E f \in LongSeedFiles \cup MoreSeedFiles : LoadSeedData(Some(f))
    \/ LoadSeedDataFlush
    \/ \E k \in OtherKeys : OtherDeleteUserProfile(k)

SpecSeed == Init /\ [][NextSeed]_vars

----------------------------------------------------------------------------
(* update_login_count called by several callers at once, all on one key.   *)
(* A call sends its request, the table applies it, the call returns.       *)

CounterKey == [userId |-> "u1", timestamp |-> IntToStr(9)]

\* the table before the calls: no item under the key, an item without
\* loginCount, or an item whose loginCount is 0
CounterTables ==
    {EmptyTable}
    \cup {Store(EmptyTable, CounterKey,
                NewItem("u1", IntToStr(9), "a@x.com", "Alice", "Johnson", kw)) :
          kw \in {EmptyDict, [loginCount |-> 0]}}

IncSend(c) ==
    /\ pc[c] = "ready"
    /\ pc' = [pc EXCEPT ![c] = "sent"]
    /\ UNCHANGED <<table, op, calls, response, prev, ret>>

IncApply(c) ==
    /\ pc[c] = "sent"
    /\ LET res == UpdateItemAdd(table, CounterKey, 1)
       IN  /\ table' = res.table
           /\ ret' = [ret EXCEPT ![c] = res.out]
    /\ pc' = [pc EXCEPT ![c] = "applied"]
    /\ UNCHANGED <<op, calls, response, prev>>

IncReturn(c) ==
    /\ pc[c] = "applied"
    /\ pc' = [pc EXCEPT ![c] = "done"]
    /\ UNCHANGED <<table, op, calls, response, prev, ret>>

InitInc ==
    /\ table \in CounterTables
    /\ op = Idle
    /\ calls = <<>>
    /\ response = Return(None)
    /\ prev = table
    /\ pc = [c \in Callers |-> "ready"]
    /\ ret = [c \in Callers |-> None]

NextInc == \E c \in Callers : IncSend(c) \/ IncApply(c) \/ IncReturn(c)

SpecInc == InitInc /\ [][NextInc]_vars

----------------------------------------------------------------------------
(* Properties *)

\* the key a method call names by its user_id and timestamp arguments
OpKey == [userId |-> op.user_id, timestamp |-> op.timestamp]

ConditionFailed == Raise("ConditionalCheckFailedException")

\* C1: a put_user_profile whose item has the primary key of a stored item
\* raises ConditionalCheckFailedException and leaves the table as it was,
\* whatever attributes the new item carries; a put under a key with no stored
\* item succeeds and stores exactly the item it was given.
CreateOnlyOnce ==
    op.name = "put_user_profile" =>
        LET item == calls[1].Item
        IN  IF KeyOf(item) \in DOMAIN prev
            THEN response = ConditionFailed /\ table = prev
            ELSE /\ response.kind = "return"
                 /\ table = Store(prev, KeyOf(item), item)

\* a second create under a taken key, carrying other attributes than the
\* stored item, has been refused
CreateRefused ==
    /\ op.name = "put_user_profile"
    /\ KeyOf(calls[1].Item) \in DOMAIN prev
    /\ prev[KeyOf(calls[1].Item)] # calls[1].Item
    /\ response = ConditionFailed

\* C2: when all NumCallers concurrent update_login_count calls with
\* increment 1 on one key have returned, on an item whose loginCount was 0 or
\* absent, loginCount is exactly NumCallers.
NoLostIncrement ==
    (\A c \in Callers : pc[c] = "done") =>
        /\ CounterKey \in DOMAIN table
        /\ table[CounterKey].loginCount = NumCallers

\* every concurrent caller has returned, over an item that had no loginCount
AllIncrementsDone ==
    /\ \A c \in Callers : pc[c] = "done"
    /\ prev # EmptyTable
    /\ "loginCount" \notin DOMAIN prev[CounterKey]

\* C3: delete_user_profile on a key with no stored item raises
\* ConditionalCheckFailedException and leaves the table as it was; on a key
\* with a stored item it returns that whole item, and get_user_profile on the
\* resulting table returns None for the key.
DeleteReportsAndRemoves ==
    op.name = "delete_user_profile" =>
        IF OpKey \in DOMAIN prev
        THEN /\ response = Return(prev[OpKey])
             /\ GetUserProfileResult(table, op.user_id, op.timestamp) = Return(None)
             /\ table = Remove(prev, OpKey)
        ELSE response = ConditionFailed /\ table = prev

\* a stored item with preferences and a counter has been deleted and returned
DeletedStoredItem ==
    /\ op.name = "delete_user_profile"
    /\ OpKey \in DOMAIN prev
    /\ "preferences" \in DOMAIN prev[OpKey]
    /\ response.kind = "return"
    /\ OpKey \notin DOMAIN table

\* the nested preference fields a call of update_preferences supplies
SuppliedFields ==
    {f \in {"theme", "notifications"} : op[f] # None}

\* C4: update_preferences changes, in the item it names, only the fields of
\* preferences it was given: with theme alone, preferences.notifications and
\* every other attribute keep their values, and symmetrically with
\* notifications alone; every other item is untouched.
PreferencesFrame ==
    op.name = "update_preferences" =>
        /\ DOMAIN table = DOMAIN prev
        /\ \A k \in DOMAIN prev \ {OpKey} : table[k] = prev[k]
        /\ OpKey \in DOMAIN prev =>
            /\ DOMAIN table[OpKey] = DOMAIN prev[OpKey]
            /\ \A a \in DOMAIN prev[OpKey] \ {"preferences"} :
                  table[OpKey][a] = prev[OpKey][a]
            /\ "preferences" \in DOMAIN prev[OpKey] =>
                /\ \A f \in DOMAIN prev[OpKey].preferences \ SuppliedFields :
                      /\ f \in DOMAIN table[OpKey].preferences
                      /\ table[OpKey].preferences[f] = prev[OpKey].preferences[f]
                /\ \A f \in SuppliedFields :
                      /\ f \in DOMAIN table[OpKey].preferences
                      /\ table[OpKey].preferences[f] = op[f].val

\* theme alone was updated to a new value on an item whose notifications
\* were set to TRUE
ThemeOnlyUpdated ==
    /\ op.name = "update_preferences"
    /\ SuppliedFields = {"theme"}
    /\ OpKey \in DOMAIN prev
    /\ "preferences" \in DOMAIN prev[OpKey]
    /\ prev[OpKey].preferences.notifications = TRUE
    /\ prev[OpKey].preferences.theme # op.theme.val
    /\ table[OpKey].preferences.theme = op.theme.val

\* C5: query_user_activity returns only items of the partition asked for, by
\* ascending sort key, and for every start_time and end_time a caller passes:
\* no item below a given start_time, no item above a given end_time, and
\* with neither given every item of the partition.
QueryHonoursBounds ==
    (op.name = "query_user_activity" /\ response.kind = "return") =>
        LET items == response.value
        IN  /\ \A i \in 1..Len(items) :
                  /\ items[i].userId = op.user_id
                  /\ op.start_time # None =>
                        StrLeq(op.start_time.val, items[i].timestamp)
                  /\ op.end_time # None =>
                        StrLeq(items[i].timestamp, op.end_time.val)
            /\ \A i \in 1..Len(items) - 1 :
                  StrLeq(items[i].timestamp, items[i + 1].timestamp)
            /\ (op.start_time = None /\ op.end_time = None) =>
                  Range(items) = {prev[k] : k \in {k \in DOMAIN prev :
                                                     k.userId = op.user_id}}

\* C6: batch_get_profiles, given keys some with a stored item and some
\* without, no more of them than one request may carry, returns exactly the
\* stored items of those keys, as many as there are such keys, and raises
\* nothing.
BatchReturnsStored ==
    (op.name = "batch_get_profiles" /\ Len(op.user_items) <= BatchLimit) =>
        /\ response.kind = "return"
        /\ Range(response.value) =
              {prev[k] : k \in Range(op.user_items) \cap DOMAIN prev}
        /\ Len(response.value) =
              Cardinality(Range(op.user_items) \cap DOMAIN prev)

\* C7: batch_get_profiles given more keys than one request may carry sends
\* requests of at most BatchLimit keys each and returns the stored items of
\* all the keys; no request exceeds the limit and the caller sees no error.
BatchIsChunked ==
    (op.name = "batch_get_profiles" /\ Len(op.user_items) > BatchLimit
       /\ Cardinality(Range(op.user_items)) = Len(op.user_items)) =>
        /\ \A i \in 1..Len(calls) : Len(calls[i].Keys) <= BatchLimit
        /\ response.kind = "return"
        /\ Range(response.value) =
              {prev[k] : k \in Range(op.user_items) \cap DOMAIN prev}

\* the nested field that entry i of a request's update expression assigns
AssignedPath(call, i) ==
    <<call.names[call.set[i].path[1]], call.names[call.set[i].path[2]]>>

\* C8: update_preferences given neither theme nor notifications returns None
\* and sends nothing to the table, which stays as it was; given at least one
\* of them it sends exactly one update_item, which assigns exactly the
\* supplied fields of preferences, each to the supplied value.
PreferencesRequest ==
    op.name = "update_preferences" =>
        IF SuppliedFields = {}
        THEN response = Return(None) /\ calls = <<>> /\ table = prev
        ELSE /\ Len(calls) = 1
             /\ calls[1].api = "update_item"
             /\ calls[1].Key = OpKey
             /\ Len(calls[1].set) = Cardinality(SuppliedFields)
             /\ \A f \in SuppliedFields : \E i \in 1..Len(calls[1].set) :
                   /\ AssignedPath(calls[1], i) = <<"preferences", f>>
                   /\ calls[1].values[calls[1].set[i].value] = op[f].val

\* update_preferences was called with nothing to change on a stored item
PreferencesNoOp ==
    /\ op.name = "update_preferences"
    /\ SuppliedFields = {}
    /\ OpKey \in DOMAIN prev
    /\ response = Return(None)

\* C9: through the operations on profiles (the bulk load of seed data set
\* aside) an item comes to exist under a key only by put_user_profile and
\* ceases to exist only by delete_user_profile; update_login_count and
\* update_preferences on a key with no stored item store no item.
LifecycleByPutAndDelete ==
    op.name # "load_seed_data" =>
    /\ DOMAIN table \ DOMAIN prev # {} => op.name = "put_user_profile"
    /\ DOMAIN prev \ DOMAIN table # {} => op.name = "delete_user_profile"
    /\ (op.name \in {"update_login_count", "update_preferences"}
          /\ OpKey \notin DOMAIN prev) => OpKey \notin DOMAIN table

\* C10: the item put_user_profile hands to the table has userId equal to the
\* user_id argument and timestamp equal to the sort key generated for the
\* call, whatever extra attributes the caller passes.
PutKeepsKey ==
    op.name = "put_user_profile" =>
        /\ calls[1].Item.userId = op.user_id
        /\ calls[1].Item.timestamp = op.timestamp

====
